---- MODULE Spec2Model ----
(***************************************************************************)
(* State machine of the ticketd engine (package ticket): the two maps the  *)
(* writer goroutine owns (sessions, resources) and one action per closure  *)
(* the writer executes.  Each public operation submits exactly one closure *)
(* over ticketChan and the writer runs it to completion before taking the  *)
(* next one, so every operation is one atomic action.                      *)
(*                                                                         *)
(* Pointers.  *Session values are modelled by the session Id (ksuid.New    *)
(* never repeats an Id, so two pointers are equal exactly when the Ids     *)
(* are); the nil pointer is Null.  The entries of Session.Tickets and      *)
(* Session.Issuances are *Ticket values of which the engine only ever      *)
(* reads Name and ResourceName (ticketAddOrUpdate, ticketRemove,           *)
(* fetchTicketPtr), both immutable, so an entry is the pair                *)
(* [ResourceName, Name].                                                   *)
(*                                                                         *)
(* Time.  Session.expires is kept relative to the clock: the field holds   *)
(* expires - time.Now(), floored at -1; s.expires.Before(time.Now()) is    *)
(* expires < 0 and refresh() sets it to Ttl.  Tick is the clock advancing  *)
(* by one unit; expireSessions is the writer serving its ticker.           *)
(*                                                                         *)
(* Replies.  last is what the caller of the latest closure received        *)
(* (operation, arguments, ok, err, ticket copy); err = "panic" is a        *)
(* closure that panicked, so that its caller never gets a reply.  holder   *)
(* is a history of the Lock replies.  steps counts the closures run.       *)
(*                                                                         *)
(* Snapshots.  With a snapshot path the snapshotter reads the tables with   *)
(* two closures (GetSessions, then GetResources) and writes two gob files; *)
(* snap is what is on disk, snapSess what the snapshotter holds between    *)
(* the two closures.  ticketProc loads the files when it starts (Restart:  *)
(* Quit followed by Start) and when it starts again after a panic.  Spec   *)
(* is the engine without snapshot path, SpecSnap the engine with one.      *)
(* procs holds where Quit, the writer and the snapshotter stand; SpecQuit   *)
(* runs Quit and Start as the goroutines do, one handshake at a time, and  *)
(* SpecQuitFair adds the scheduling Quit relies on.                        *)
(* Session.Name, Session.Src and Ticket.Data are payload that no closure   *)
(* reads; they are left out.                                               *)
(*                                                                         *)
(* A replaced or deleted Ticket object (oldTick.Issuer = nil in            *)
(* IssueTicket, ticket.Issuer = nil in Unlock) is reachable only through   *)
(* the session lists, whose entries are keys here, so those writes have    *)
(* no counterpart.                                                         *)
(***************************************************************************)
EXTENDS Integers, Sequences, FiniteSets, TLC

\* ---- bounds -------------------------------------------------------------
MaxSessions == 3
MaxOps == 7

\* ---- input domains ------------------------------------------------------
ResourceNames == {"r1"}
TicketNames == ResourceNames \cup {"foo"}
TtlVals == {1}

Null == 0

VARIABLES sessions, resources, nextId, last, holder, steps,
          snapshotPath, snap, snapSess, procs

vars == <<sessions, resources, nextId, last, holder, steps, snapshotPath, snap, snapSess,
          procs>>

\* The session Ids a caller can present: every Id handed out so far (live,
\* closed or expired) and one Id that was never handed out; the closures
\* treat all unknown Ids alike (sessions[sessId] == nil)
SessionIds == 1..nextId

\* ---- helpers ------------------------------------------------------------
EmptyMap == [x \in {} |-> Null]

Range(seq) == {seq[i] : i \in 1..Len(seq)}

Key(r, n) == [ResourceName |-> r, Name |-> n]

\* A variant of MapRemove that leaves the entry in the map
MapRemove_Keep(m, k) == m

\* delete(m, k)
MapRemove(m, k) == [x \in (DOMAIN m) \ {k} |-> m[x]]

MapPut(m, k, v) == [x \in (DOMAIN m) \cup {k} |-> IF x = k THEN v ELSE m[x]]

NoTicket == [Name |-> "", ResourceName |-> "", Issuer |-> Null, Claimant |-> Null]

\* newResource
newResource(isLock) == [IsLock |-> isLock, Tickets |-> EmptyMap]

\* newTicket
newTicket(issuer) == [Issuer |-> issuer, Claimant |-> Null]

\* newSession followed by refresh()
newSession(ttl) == [Ttl |-> ttl, expires |-> ttl, Tickets |-> <<>>, Issuances |-> <<>>]

\* A variant of refresh that leaves the deadline where it is
refresh_Keep(s) == s

\* Session.refresh
refresh(s) == [s EXCEPT !.expires = s.Ttl]

\* ticketAddOrUpdate
ticketAddOrUpdate(oldArray, k) ==
    IF k \in Range(oldArray) THEN oldArray ELSE Append(oldArray, k)

\* A variant of ticketRemove that shortens the slice without moving the last
\* entry into the place of the match
ticketRemove_DropLast(oldArray, k) ==
    IF k \in Range(oldArray) THEN SubSeq(oldArray, 1, Len(oldArray) - 1) ELSE oldArray

\* ticketRemove: the first match is overwritten by the last entry, and the
\* slice is shortened by one
ticketRemove(oldArray, k) ==
    IF k \in Range(oldArray)
    THEN LET i == CHOOSE j \in 1..Len(oldArray) :
                     /\ oldArray[j] = k
                     /\ \A h \in 1..(j - 1) : oldArray[h] # k
         IN SubSeq([oldArray EXCEPT ![i] = oldArray[Len(oldArray)]], 1, Len(oldArray) - 1)
    ELSE oldArray

\* ret = &Session{}: what GetSession returns when it fails
NoSession == [Id |-> Null, Ttl |-> 0, Tickets |-> <<>>, Issuances |-> <<>>]

\* The reply of an operation, as its caller receives it
Reply(op, sess, res, name, ok, err, t) ==
    [op |-> op, sess |-> sess, res |-> res, name |-> name, ok |-> ok, err |-> err,
     ticket |-> t, session |-> NoSession]

\* Ticket.clone, as far as the caller reads it
clone(r, n, t) == [Name |-> n, ResourceName |-> r, Issuer |-> t.Issuer, Claimant |-> t.Claimant]

\* Session.clone: a copy of the session with copies of its two lists (the
\* unexported expires is not part of what a caller or the encoder reads)
cloneSession(id, s) ==
    [Id |-> id, Ttl |-> s.Ttl, Tickets |-> s.Tickets, Issuances |-> s.Issuances]

\* ---- snapshot files ------------------------------------------------------
\* GetSessions: a copy of the sessions table
GetSessions(ss) == [id \in DOMAIN ss |-> cloneSession(id, ss[id])]

\* GetResources: a copy of the resources table with copies of the tickets
GetResources(res) ==
    [r \in DOMAIN res |->
        [Name |-> r, IsLock |-> res[r].IsLock,
         Tickets |-> [n \in DOMAIN res[r].Tickets |-> clone(r, n, res[r].Tickets[n])]]]

\* encoding/gob leaves a slice of length zero out of the stream (the field
\* is then absent: {}) and sends any other slice
gobSlice(seq) == IF Len(seq) = 0 THEN {} ELSE {seq}

\* The decoder leaves an absent slice field nil; loadSnapshot turns the nil
\* lists of a session into empty ones
unGobSlice(f) == IF f = {} THEN <<>> ELSE CHOOSE seq \in f : TRUE

\* snapshotSessions: one encoded Session per entry of the copy; the
\* unexported expires is not encoded
snapshotSessions(clones) ==
    {[Id |-> clones[id].Id, Ttl |-> clones[id].Ttl,
      Tickets |-> gobSlice(clones[id].Tickets),
      Issuances |-> gobSlice(clones[id].Issuances)] : id \in DOMAIN clones}

\* snapshotResources: one encoded Resource per entry of the copy (gob sends
\* a map of any size, and a nil Issuer or Claimant is decoded as nil)
snapshotResources(clones) == {clones[r] : r \in DOMAIN clones}

\* loadSessions: sessions[s.Id] = &s for every Session of the stream; the
\* decoded expires is the zero time
loadSessions(file) ==
    [id \in {e.Id : e \in file} |->
        LET e == CHOOSE x \in file : x.Id = id IN
        [Ttl |-> e.Ttl, expires |-> -1,
         Tickets |-> unGobSlice(e.Tickets), Issuances |-> unGobSlice(e.Issuances)]]

\* loadResources: resources[r.Name] = &r for every Resource of the stream
loadResources(file) ==
    [r \in {e.Name : e \in file} |->
        LET e == CHOOSE x \in file : x.Name = r IN
        [IsLock |-> e.IsLock,
         Tickets |-> [n \in DOMAIN e.Tickets |->
                         [Issuer |-> e.Tickets[n].Issuer, Claimant |-> e.Tickets[n].Claimant]]]]

\* The orders in which a range loop can visit the keys of a Go map
Perms(S) ==
    {p \in [1..Cardinality(S) -> S] : \A i, j \in 1..Cardinality(S) : p[i] = p[j] => i = j}

\* sess.Tickets[i].Claimant = sess, for the sessions in the order p: the
\* claimant of ticket k ends up as the last session that lists k as claimed,
\* and stays the decoded one when no session lists it
relinkClaimant(ss, p, k, decoded) ==
    LET idx == {i \in 1..Len(p) : k \in Range(ss[p[i]].Tickets)} IN
    IF idx = {} THEN decoded ELSE p[CHOOSE i \in idx : \A j \in idx : j <= i]

\* sess.Issuances[i].Issuer = sess, in the same way
relinkIssuer(ss, p, k, decoded) ==
    LET idx == {i \in 1..Len(p) : k \in Range(ss[p[i]].Issuances)} IN
    IF idx = {} THEN decoded ELSE p[CHOOSE i \in idx : \A j \in idx : j <= i]

\* ticket.Issuer = sessions[ticket.Issuer.Id] (and Claimant alike): nil when
\* the decoded session is not in the loaded table
known(ss, x) == IF x \in DOMAIN ss THEN x ELSE Null

dangling_Never(ss, res) == FALSE

\* An entry of a session list names a resource or a ticket that the
\* resources file does not have: loadSnapshot then returns nil, nil and the
\* error, whatever it has linked so far
dangling(ss, res) ==
    \E id \in DOMAIN ss :
        \E k \in Range(ss[id].Tickets) \cup Range(ss[id].Issuances) :
            \/ k.ResourceName \notin DOMAIN res
            \/ k.Name \notin DOMAIN res[k.ResourceName].Tickets

restoreSession_NoRefresh(s) == s

\* sess.refresh() at the end of the relinking of a session: a restored
\* session expires its ttl after the load
restoreSession(s) == refresh(s)

\* loadSnapshot, with the sessions visited in the order p.  The load fails
\* when a file is missing, and as a whole when an entry of a session list
\* is dangling
loadSnapshot(files, p) ==
    IF ~files.exists
    THEN [err |-> "NoFile", sessions |-> EmptyMap, resources |-> EmptyMap]
    ELSE LET ss == loadSessions(files.sessions)
             res == loadResources(files.resources)
         IN IF dangling(ss, res)
            THEN [err |-> "Corrupt", sessions |-> EmptyMap, resources |-> EmptyMap]
            ELSE [err |-> "none",
                  sessions |-> [id \in DOMAIN ss |-> restoreSession(ss[id])],
                  resources |->
                      [r \in DOMAIN res |->
                          [res[r] EXCEPT !.Tickets =
                              [n \in DOMAIN res[r].Tickets |->
                                  LET t == res[r].Tickets[n] IN
                                  [Issuer |-> known(ss, relinkIssuer(ss, p, Key(r, n), t.Issuer)),
                                   Claimant |-> known(ss, relinkClaimant(ss, p, Key(r, n), t.Claimant))]]]]]

\* The maps ticketProc starts with: fresh ones, replaced by the loaded ones
\* when a snapshot path is configured and the load succeeds
ticketProcStart(path, files, p) ==
    IF path = ""
    THEN [err |-> "none", sessions |-> EmptyMap, resources |-> EmptyMap]
    ELSE loadSnapshot(files, p)

\* The session Ids of the sessions file
FileIds(files) == {e.Id : e \in files.sessions}

\* No snapshot written yet; state and oneState are a history of what the
\* snapshotter read: the two copies, and whether both show one state
NoFiles ==
    [exists |-> FALSE, sessions |-> {}, resources |-> {},
     state |-> [sessions |-> EmptyMap, resources |-> EmptyMap], oneState |-> FALSE]

\* The snapshotter between two ticks of its ticker
Idle == [busy |-> FALSE, sessions |-> EmptyMap]

\* The goroutines after Start: the writer in the loop of ticketProc, the
\* snapshotter in the loop of snapshotProc when there is a snapshot path,
\* and no Quit under way
Started(path) ==
    [quit |-> "idle", writer |-> "loop",
     snapshotter |-> IF path # "" THEN "loop" ELSE "none"]

\* ---- Init ---------------------------------------------------------------
\* NewTicketD and Start: empty maps, no snapshot on disk
Fresh ==
    /\ sessions = EmptyMap
    /\ resources = EmptyMap
    /\ nextId = 1
    /\ last = Reply("init", Null, "", "", FALSE, "none", NoTicket)
    /\ holder = [r \in ResourceNames |-> Null]
    /\ steps = 0
    /\ snap = NoFiles
    /\ snapSess = Idle
    /\ procs = Started(snapshotPath)

\* An engine without snapshot path
Init ==
    /\ snapshotPath = ""
    /\ Fresh

\* An engine with a snapshot path
InitSnap ==
    /\ snapshotPath = "snaps"
    /\ Fresh

\* Every closure the writer runs counts against the bound on the run length;
\* the closures of the operations touch neither the configuration, nor the
\* snapshot files, nor what the snapshotter holds
Step ==
    /\ steps < MaxOps
    /\ steps' = steps + 1
    /\ procs.writer = "loop"
    /\ UNCHANGED <<snapshotPath, snap, snapSess, procs>>

\* ---- session operations -------------------------------------------------
OpenSession ==
    \E ttl \in TtlVals :
        /\ Step
        /\ nextId <= MaxSessions
        /\ sessions' = MapPut(sessions, nextId, newSession(ttl))
        /\ nextId' = nextId + 1
        /\ last' = Reply("OpenSession", nextId, "", "", TRUE, "none", NoTicket)
        /\ UNCHANGED <<resources, holder>>

\* A variant of clearClaims that clears whatever the lists name, without
\* the test that the ticket still belongs to the session
clearClaims_NoOwnerCheck(id, s, res) ==
    [r \in DOMAIN res |->
        [res[r] EXCEPT !.Tickets =
            [n \in DOMAIN res[r].Tickets |->
                LET t == res[r].Tickets[n] IN
                [t EXCEPT
                    !.Claimant = IF Key(r, n) \in Range(s.Tickets)
                                  THEN Null ELSE t.Claimant,
                    !.Issuer = IF Key(r, n) \in Range(s.Issuances)
                                THEN Null ELSE t.Issuer]]]]

\* A variant of clearClaims that forgets the loop over s.Tickets
clearClaims_IssuancesOnly(id, s, res) ==
    [r \in DOMAIN res |->
        [res[r] EXCEPT !.Tickets =
            [n \in DOMAIN res[r].Tickets |->
                LET t == res[r].Tickets[n] IN
                [t EXCEPT
                    !.Issuer = IF Key(r, n) \in Range(s.Issuances) /\ t.Issuer = id
                                THEN Null ELSE t.Issuer]]]]

\* Session.clearClaims: every entry of s.Tickets / s.Issuances is resolved
\* through fetchTicketPtr to the ticket the resource holds now, and the claim
\* or the issuance is cleared only when it still belongs to this session
clearClaims(id, s, res) ==
    [r \in DOMAIN res |->
        [res[r] EXCEPT !.Tickets =
            [n \in DOMAIN res[r].Tickets |->
                LET t == res[r].Tickets[n] IN
                [t EXCEPT
                    !.Claimant = IF Key(r, n) \in Range(s.Tickets) /\ t.Claimant = id
                                  THEN Null ELSE t.Claimant,
                    !.Issuer = IF Key(r, n) \in Range(s.Issuances) /\ t.Issuer = id
                                THEN Null ELSE t.Issuer]]]]

\* The writer recovers from a panic inside a closure and ticketProc is
\* entered again: with fresh maps, or with what the snapshot on disk loads
\* to when a snapshot path is configured; the caller of the closure gets no
\* reply
PanicRestart(op, sessId, resource, name) ==
    \E p \in Perms(FileIds(snap)) :
        LET start == ticketProcStart(snapshotPath, snap, p) IN
        /\ sessions' = start.sessions
        /\ resources' = start.resources
        /\ last' = Reply(op, sessId, resource, name, FALSE, "panic", NoTicket)

\* holder[r] is the session whose Lock(r) was last answered ok=true and that
\* has not since called Unlock(r), removed the lock ticket itself, been
\* closed or been expired (a history of the replies, not engine state)
Forget(h, ids) == [r \in ResourceNames |-> IF h[r] \in ids THEN Null ELSE h[r]]

\* CloseSession.  The record of a CloseSession that found its session
\* carries a copy of the session as clearClaims found it (the caller
\* receives err only)
CloseSession ==
    \E id \in SessionIds :
        /\ Step
        /\ IF id \in DOMAIN sessions
           THEN /\ resources' = clearClaims(id, sessions[id], resources)
                /\ sessions' = MapRemove(sessions, id)
                /\ holder' = Forget(holder, {id})
                /\ last' = [Reply("CloseSession", id, "", "", TRUE, "none", NoTicket)
                                EXCEPT !.session = cloneSession(id, sessions[id])]
           ELSE /\ last' = Reply("CloseSession", id, "", "", FALSE, "NotFound", NoTicket)
                /\ UNCHANGED <<sessions, resources, holder>>
        /\ UNCHANGED nextId

RefreshSession ==
    \E id \in SessionIds :
        /\ Step
        /\ IF id \in DOMAIN sessions
           THEN /\ sessions' = [sessions EXCEPT ![id] = refresh(@)]
                /\ last' = Reply("RefreshSession", id, "", "", TRUE, "none", NoTicket)
           ELSE /\ last' = Reply("RefreshSession", id, "", "", FALSE, "NotFound", NoTicket)
                /\ UNCHANGED sessions
        /\ UNCHANGED <<resources, nextId, holder>>

GetSession ==
    \E id \in SessionIds :
        /\ Step
        /\ IF id \in DOMAIN sessions
           THEN last' = [Reply("GetSession", id, "", "", TRUE, "none", NoTicket)
                            EXCEPT !.session = cloneSession(id, sessions[id])]
           ELSE last' = Reply("GetSession", id, "", "", FALSE, "NotFound", NoTicket)
        /\ UNCHANGED <<sessions, resources, nextId, holder>>

\* ---- ticket operations --------------------------------------------------
\* A variant of ticketOpOnLock that never rejects
ticketOpOnLock_Never(res, resource) == FALSE

\* A variant of ticketOpOnLock that rejects only while the lock is held
ticketOpOnLock_WhenHeld(res, resource) ==
    /\ resource \in DOMAIN res
    /\ res[resource].IsLock
    /\ DOMAIN res[resource].Tickets # {}

\* The r.IsLock test of IssueTicket and ClaimTicket
ticketOpOnLock(res, resource) ==
    resource \in DOMAIN res /\ res[resource].IsLock

\* A variant of takeOver that forgets the claimant of the replaced ticket
takeOver_DropClaimant(sessId, oldTick) == newTicket(sessId)

\* "If ticket exists, but issued by another session we are just going to
\* take it over": the new ticket inherits the claimant of the one it replaces
takeOver(sessId, oldTick) ==
    [newTicket(sessId) EXCEPT !.Claimant = oldTick.Claimant]

\* A variant of issuing that leaves the deadline of the session alone
issuing_NoRefresh(s) == s

\* sess.refresh() of IssueTicket, which comes before the resource is looked
\* at and so also before the refusal of a lock resource
issuing(s) == refresh(s)

IssueTicket ==
    \E sessId \in SessionIds, resource \in ResourceNames, name \in TicketNames :
        /\ Step
        /\ IF sessId \notin DOMAIN sessions
           THEN /\ last' = Reply("IssueTicket", sessId, resource, name, FALSE, "NotFound", NoTicket)
                /\ UNCHANGED <<sessions, resources>>
           ELSE LET sess == issuing(sessions[sessId]) IN
                IF ticketOpOnLock(resources, resource)
                THEN /\ sessions' = [sessions EXCEPT ![sessId] = sess]
                     /\ last' = Reply("IssueTicket", sessId, resource, name, FALSE, "ResourceType", NoTicket)
                     /\ UNCHANGED resources
                ELSE LET r == IF resource \in DOMAIN resources
                              THEN resources[resource] ELSE newResource(FALSE)
                         ticket == IF name \in DOMAIN r.Tickets
                                   THEN takeOver(sessId, r.Tickets[name])
                                   ELSE newTicket(sessId)
                     IN /\ resources' = MapPut(resources, resource,
                                               [r EXCEPT !.Tickets = MapPut(@, name, ticket)])
                        /\ sessions' = [sessions EXCEPT ![sessId] =
                               [sess EXCEPT !.Issuances = ticketAddOrUpdate(@, Key(resource, name))]]
                        /\ last' = Reply("IssueTicket", sessId, resource, name, TRUE, "none", NoTicket)
        /\ UNCHANGED <<nextId, holder>>

\* A variant of revoked that invalidates the ticket and leaves it in place
revoked_IssuerCleared(res, resource, name) ==
    [res EXCEPT ![resource].Tickets[name].Issuer = Null]

\* delete(r.Tickets, name), whoever issued the ticket: "We still allow
\* revocation of a ticket, even if issued in another session"
revoked(res, resource, name) ==
    [res EXCEPT ![resource].Tickets = MapRemove(@, name)]

RevokeTicket ==
    \E sessId \in SessionIds, resource \in ResourceNames, name \in TicketNames :
        /\ Step
        /\ IF sessId \notin DOMAIN sessions
           THEN /\ last' = Reply("RevokeTicket", sessId, resource, name, FALSE, "NotFound", NoTicket)
                /\ UNCHANGED <<sessions, resources>>
           ELSE IF resource \notin DOMAIN resources
           THEN /\ last' = Reply("RevokeTicket", sessId, resource, name, FALSE, "NotFound", NoTicket)
                /\ UNCHANGED <<sessions, resources>>
           ELSE IF name \notin DOMAIN resources[resource].Tickets
           THEN /\ last' = Reply("RevokeTicket", sessId, resource, name, FALSE, "UnknownTicket", NoTicket)
                /\ UNCHANGED <<sessions, resources>>
           ELSE /\ resources' = revoked(resources, resource, name)
                /\ sessions' = [sessions EXCEPT ![sessId].Issuances = ticketRemove(@, Key(resource, name))]
                /\ last' = Reply("RevokeTicket", sessId, resource, name, TRUE, "none", NoTicket)
        /\ holder' = IF holder[resource] = sessId /\ name = resource /\ last'.ok
                     THEN [holder EXCEPT ![resource] = Null] ELSE holder
        /\ UNCHANGED nextId

\* Variants of Claimable that drop one half of the test
Claimable_IgnoreClaimant(t, sessId) == t.Issuer # Null

Claimable_IgnoreIssuer(t, sessId) == t.Claimant = Null \/ t.Claimant = sessId

\* The test of the claim loop: ticket.Issuer != nil &&
\* (ticket.Claimant == nil || ticket.Claimant == sess)
Claimable(t, sessId) ==
    /\ t.Issuer # Null
    /\ (t.Claimant = Null \/ t.Claimant = sessId)

claimedBy_Refreshing(s, k) == refresh([s EXCEPT !.Tickets = ticketAddOrUpdate(@, k)])

\* sess.Tickets = ticketAddOrUpdate(sess.Tickets, ticket): the one write of
\* the claim loop to the session; its deadline is left alone
claimedBy(s, k) == [s EXCEPT !.Tickets = ticketAddOrUpdate(@, k)]

\* The loop ranges over a Go map, so the first claimable ticket it meets is
\* any claimable ticket
ClaimTicket ==
    \E sessId \in SessionIds, resource \in ResourceNames :
        /\ Step
        /\ IF sessId \notin DOMAIN sessions
           THEN /\ last' = Reply("ClaimTicket", sessId, resource, "", FALSE, "NotFound", NoTicket)
                /\ UNCHANGED <<sessions, resources>>
           ELSE IF resource \notin DOMAIN resources
           THEN /\ last' = Reply("ClaimTicket", sessId, resource, "", FALSE, "none", NoTicket)
                /\ UNCHANGED <<sessions, resources>>
           ELSE IF ticketOpOnLock(resources, resource)
           THEN /\ last' = Reply("ClaimTicket", sessId, resource, "", FALSE, "ResourceType", NoTicket)
                /\ UNCHANGED <<sessions, resources>>
           ELSE LET r == resources[resource]
                    cands == {n \in DOMAIN r.Tickets : Claimable(r.Tickets[n], sessId)}
                IN IF cands = {}
                   THEN /\ last' = Reply("ClaimTicket", sessId, resource, "", FALSE, "none", NoTicket)
                        /\ UNCHANGED <<sessions, resources>>
                   ELSE \E n \in cands :
                        LET t == [r.Tickets[n] EXCEPT !.Claimant = sessId] IN
                        /\ resources' = [resources EXCEPT ![resource].Tickets[n] = t]
                        /\ sessions' = [sessions EXCEPT ![sessId] = claimedBy(@, Key(resource, n))]
                        /\ last' = Reply("ClaimTicket", sessId, resource, "", TRUE, "none",
                                         clone(resource, n, t))
        /\ UNCHANGED <<nextId, holder>>

holdsTicket_AnyClaim(res, resource, name, sessId) ==
    name \in DOMAIN res[resource].Tickets

\* ticket != nil && ticket.Claimant == sess, the test of ReleaseTicket and
\* of HasTicket
holdsTicket(res, resource, name, sessId) ==
    /\ name \in DOMAIN res[resource].Tickets
    /\ res[resource].Tickets[name].Claimant = sessId

\* ReleaseTicket returns only err; the ticket of its reply is the ticket the
\* closure logs as released, NoTicket when it released nothing
ReleaseTicket ==
    \E sessId \in SessionIds, resource \in ResourceNames, name \in TicketNames :
        /\ Step
        /\ IF sessId \notin DOMAIN sessions
           THEN /\ last' = Reply("ReleaseTicket", sessId, resource, name, FALSE, "NotFound", NoTicket)
                /\ UNCHANGED <<sessions, resources>>
           ELSE IF resource \notin DOMAIN resources
           THEN /\ last' = Reply("ReleaseTicket", sessId, resource, name, FALSE, "NotFound", NoTicket)
                /\ UNCHANGED <<sessions, resources>>
           ELSE IF holdsTicket(resources, resource, name, sessId)
           THEN LET t == [resources[resource].Tickets[name] EXCEPT !.Claimant = Null] IN
                /\ resources' = [resources EXCEPT ![resource].Tickets[name] = t]
                /\ sessions' = [sessions EXCEPT ![sessId].Tickets =
                                    ticketRemove(@, Key(resource, name))]
                /\ last' = Reply("ReleaseTicket", sessId, resource, name, TRUE, "none",
                                 clone(resource, name, t))
           ELSE /\ last' = Reply("ReleaseTicket", sessId, resource, name, TRUE, "none", NoTicket)
                /\ UNCHANGED <<sessions, resources>>
        /\ UNCHANGED <<nextId, holder>>

HasTicket ==
    \E sessId \in SessionIds, resource \in ResourceNames, name \in TicketNames :
        /\ Step
        /\ IF sessId \notin DOMAIN sessions
           THEN last' = Reply("HasTicket", sessId, resource, name, FALSE, "NotFound", NoTicket)
           ELSE IF resource \notin DOMAIN resources
           THEN last' = Reply("HasTicket", sessId, resource, name, FALSE, "NotFound", NoTicket)
           ELSE last' = Reply("HasTicket", sessId, resource, name,
                              holdsTicket(resources, resource, name, sessId),
                              "none", NoTicket)
        /\ UNCHANGED <<sessions, resources, nextId, holder>>

isHolder_Never(t, sessId) == FALSE

isHolder_Always(t, sessId) == TRUE

\* ticket.Issuer.Id == sess.Id: the lock ticket belongs to the caller
isHolder(t, sessId) == t.Issuer = sessId

\* ---- lock operations ----------------------------------------------------
\* Lock compares ticket.Issuer.Id with sess.Id: when the lock ticket is
\* present and its Issuer is nil the closure dereferences a nil pointer.
\* The record of a Lock that found the lock ticket in place carries a copy
\* of it (the caller receives ok and err only)
Lock ==
    \E sessId \in SessionIds, resource \in ResourceNames :
        /\ Step
        /\ IF sessId \notin DOMAIN sessions
           THEN /\ last' = Reply("Lock", sessId, resource, "", FALSE, "NotFound", NoTicket)
                /\ UNCHANGED <<sessions, resources, holder>>
           ELSE IF resource \in DOMAIN resources /\ ~resources[resource].IsLock
           THEN /\ last' = Reply("Lock", sessId, resource, "", FALSE, "ResourceType", NoTicket)
                /\ UNCHANGED <<sessions, resources, holder>>
           ELSE LET r == IF resource \in DOMAIN resources
                         THEN resources[resource] ELSE newResource(TRUE)
                    n == Cardinality(DOMAIN r.Tickets)
                IN IF n > 1 \/ (n = 1 /\ resource \notin DOMAIN r.Tickets)
                   THEN /\ resources' = MapPut(resources, resource, r)
                        /\ last' = Reply("Lock", sessId, resource, "", FALSE, "Malformed", NoTicket)
                        /\ UNCHANGED <<sessions, holder>>
                   ELSE IF resource \notin DOMAIN r.Tickets
                   THEN /\ resources' = MapPut(resources, resource,
                                [r EXCEPT !.Tickets = MapPut(@, resource, newTicket(sessId))])
                        /\ sessions' = [sessions EXCEPT ![sessId].Issuances =
                                            ticketAddOrUpdate(@, Key(resource, resource))]
                        /\ holder' = [holder EXCEPT ![resource] = sessId]
                        /\ last' = Reply("Lock", sessId, resource, "", TRUE, "none", NoTicket)
                   ELSE IF r.Tickets[resource].Issuer = Null
                   THEN /\ PanicRestart("Lock", sessId, resource, "")
                        /\ UNCHANGED holder
                   ELSE IF isHolder(r.Tickets[resource], sessId)
                   THEN /\ holder' = [holder EXCEPT ![resource] = sessId]
                        /\ last' = Reply("Lock", sessId, resource, "", TRUE, "none",
                                         clone(resource, resource, r.Tickets[resource]))
                        /\ UNCHANGED <<sessions, resources>>
                   ELSE /\ last' = Reply("Lock", sessId, resource, "", FALSE, "none",
                                         clone(resource, resource, r.Tickets[resource]))
                        /\ UNCHANGED <<sessions, resources, holder>>
        /\ UNCHANGED nextId

\* Unlock compares ticket.Issuer.Id with sess.Id in the same way
Unlock ==
    \E sessId \in SessionIds, resource \in ResourceNames :
        /\ Step
        /\ IF sessId \notin DOMAIN sessions
           THEN /\ last' = Reply("Unlock", sessId, resource, "", FALSE, "NotFound", NoTicket)
                /\ UNCHANGED <<sessions, resources>>
           ELSE IF resource \notin DOMAIN resources
           THEN /\ last' = Reply("Unlock", sessId, resource, "", FALSE, "NotFound", NoTicket)
                /\ UNCHANGED <<sessions, resources>>
           ELSE IF ~resources[resource].IsLock
           THEN /\ last' = Reply("Unlock", sessId, resource, "", FALSE, "ResourceType", NoTicket)
                /\ UNCHANGED <<sessions, resources>>
           ELSE IF resource \notin DOMAIN resources[resource].Tickets
           THEN /\ last' = Reply("Unlock", sessId, resource, "", FALSE, "NotFound", NoTicket)
                /\ UNCHANGED <<sessions, resources>>
           ELSE IF resources[resource].Tickets[resource].Issuer = Null
           THEN PanicRestart("Unlock", sessId, resource, "")
           ELSE IF ~isHolder(resources[resource].Tickets[resource], sessId)
           THEN /\ last' = Reply("Unlock", sessId, resource, "", FALSE, "NotFound", NoTicket)
                /\ UNCHANGED <<sessions, resources>>
           ELSE /\ resources' = [resources EXCEPT ![resource].Tickets = MapRemove(@, resource)]
                /\ sessions' = [sessions EXCEPT ![sessId].Issuances =
                                    ticketRemove(@, Key(resource, resource))]
                /\ last' = Reply("Unlock", sessId, resource, "", TRUE, "none", NoTicket)
        /\ holder' = IF holder[resource] = sessId
                     THEN [holder EXCEPT ![resource] = Null] ELSE holder
        /\ UNCHANGED nextId

\* ---- expiration sweep ---------------------------------------------------
\* A variant of isExpired for which no deadline ever passes
isExpired_Never(s) == FALSE

\* s.expires.Before(time.Now())
isExpired(s) == s.expires < 0

RECURSIVE clearAll(_, _)
clearAll(ids, res) ==
    IF ids = {} THEN res
    ELSE LET id == CHOOSE x \in ids : TRUE
         IN clearAll(ids \ {id}, clearClaims(id, sessions[id], res))

\* "Remove tickets with no issuer"
purgeTickets(res) ==
    [r \in DOMAIN res |->
        [res[r] EXCEPT !.Tickets =
            [n \in {m \in DOMAIN res[r].Tickets : res[r].Tickets[m].Issuer # Null} |->
                res[r].Tickets[n]]]]

\* "Finally, remove resources with no tickets"
purgeResources(res) ==
    [r \in {x \in DOMAIN res : DOMAIN res[x].Tickets # {}} |-> res[r]]

\* A variant of cascade that drops the empty resources before the tickets
cascade_ResourcesFirst(expired, res) ==
    purgeTickets(purgeResources(clearAll(expired, res)))

\* The three passes of expireSessions over the resources, in their order:
\* sessions, then tickets, then resources
cascade(expired, res) ==
    purgeResources(purgeTickets(clearAll(expired, res)))

\* expireSessions, run by the writer on every tick of its ticker; the sweep
\* has no caller, ok records whether it logged the expiry of a session
expireSessions ==
    LET expired == {id \in DOMAIN sessions : isExpired(sessions[id])} IN
    /\ Step
    /\ sessions' = [id \in (DOMAIN sessions) \ expired |-> sessions[id]]
    /\ resources' = cascade(expired, resources)
    /\ holder' = Forget(holder, expired)
    /\ last' = Reply("expireSessions", Null, "", "", expired # {}, "none", NoTicket)
    /\ UNCHANGED nextId

\* time.Now() advances by one unit: every deadline comes one unit closer
Tick ==
    /\ Step
    /\ \E id \in DOMAIN sessions : sessions[id].expires >= 0
    /\ sessions' = [id \in DOMAIN sessions |->
                        [sessions[id] EXCEPT !.expires = IF @ < 0 THEN -1 ELSE @ - 1]]
    /\ last' = Reply("Tick", Null, "", "", TRUE, "none", NoTicket)
    /\ UNCHANGED <<resources, nextId, holder>>

\* ---- snapshotter and restart ---------------------------------------------
\* snapshotProc on a tick of its ticker, first closure: sess := GetSessions()
SnapshotSessions ==
    /\ steps < MaxOps
    /\ steps' = steps + 1
    /\ snapshotPath # ""
    /\ procs.snapshotter = "loop"
    /\ procs.writer = "loop"
    /\ ~snapSess.busy
    /\ snapSess' = [busy |-> TRUE, sessions |-> GetSessions(sessions)]
    /\ last' = Reply("GetSessions", Null, "", "", TRUE, "none", NoTicket)
    /\ UNCHANGED <<sessions, resources, nextId, holder, snapshotPath, snap, procs>>

\* second closure, res := GetResources(), and snapshot(path, sess, res),
\* which writes the two files.  A tick that Quit is waiting for is finished
\* also when the bound on the run length is reached
SnapshotResources ==
    /\ steps < MaxOps \/ procs.quit = "snap"
    /\ steps' = IF steps < MaxOps THEN steps + 1 ELSE steps
    /\ snapSess.busy
    /\ procs.writer = "loop"
    /\ snap' = [exists |-> TRUE,
                sessions |-> snapshotSessions(snapSess.sessions),
                resources |-> snapshotResources(GetResources(resources)),
                state |-> [sessions |-> snapSess.sessions, resources |-> resources],
                oneState |-> (snapSess.sessions = GetSessions(sessions))]
    /\ snapSess' = Idle
    /\ last' = Reply("snapshot", Null, "", "", TRUE, "none", NoTicket)
    /\ UNCHANGED <<sessions, resources, nextId, holder, snapshotPath, procs>>

\* Quit, which waits for the snapshotter to leave its loop and then for the
\* writer, followed by Start: ticketProc begins again
Restart ==
    /\ Step
    /\ procs.quit = "idle"
    /\ ~snapSess.busy
    /\ \E p \in Perms(FileIds(snap)) :
           LET start == ticketProcStart(snapshotPath, snap, p) IN
           /\ sessions' = start.sessions
           /\ resources' = start.resources
           /\ last' = Reply("Restart", Null, "", "", start.err = "none", start.err, NoTicket)
    /\ UNCHANGED <<nextId, holder>>

Next ==
    \/ OpenSession
    \/ CloseSession
    \/ RefreshSession
    \/ GetSession
    \/ IssueTicket
    \/ RevokeTicket
    \/ ClaimTicket
    \/ ReleaseTicket
    \/ HasTicket
    \/ Lock
    \/ Unlock
    \/ expireSessions
    \/ Tick

Spec == Init /\ [][Next]_vars

\* The engine with snapshots: the operations, the snapshotter, and a stop
\* followed by a start
NextSnap ==
    \/ Next
    \/ SnapshotSessions
    \/ SnapshotResources
    \/ Restart

SpecSnap == InitSnap /\ [][NextSnap]_vars

\* ---- Quit and Start, step by step -----------------------------------------
quitFirst_WriterFirst(path) == "writer"

\* Quit signals the snapshotter first when Start made one
\* (td.quitSnapChan != nil), and the writer at once otherwise
quitFirst(path) == IF path # "" THEN "snap" ELSE "writer"

\* Quit is called and blocks in its first send, td.quitSnapChan <- nil or
\* td.quitChan <- nil, until the loop it signals takes the value; the
\* writer keeps serving closures and sweeps meanwhile
Quit ==
    /\ steps < MaxOps
    /\ steps' = steps + 1
    /\ procs.quit = "idle"
    /\ procs.writer = "loop"
    /\ procs' = [procs EXCEPT !.quit = quitFirst(snapshotPath)]
    /\ last' = Reply("Quit", Null, "", "", FALSE, "none", NoTicket)
    /\ UNCHANGED <<sessions, resources, nextId, holder, snapshotPath, snap, snapSess>>

\* The snapshotter, in its select (not inside a tick), takes the quit
\* value, closes td.quitSnapChan and returns; Quit receives from the closed
\* channel and goes on to td.quitChan <- nil
SnapshotterQuits ==
    /\ procs.quit = "snap"
    /\ procs.snapshotter = "loop"
    /\ ~snapSess.busy
    /\ procs' = [procs EXCEPT !.quit = "writer", !.snapshotter = "stopped"]
    /\ last' = Reply("Quit", Null, "", "", FALSE, "snapshotter", NoTicket)
    /\ UNCHANGED <<sessions, resources, nextId, holder, steps, snapshotPath, snap, snapSess>>

\* The writer, in its select, takes the quit value, closes td.quitChan and
\* returns; Quit receives from the closed channel and returns
WriterQuits ==
    /\ procs.quit = "writer"
    /\ procs.writer = "loop"
    /\ procs' = [procs EXCEPT !.quit = "returned", !.writer = "stopped"]
    /\ last' = Reply("Quit", Null, "", "", TRUE, "none", NoTicket)
    /\ UNCHANGED <<sessions, resources, nextId, holder, steps, snapshotPath, snap, snapSess>>

\* NewTicketD and Start on the same snapshot path after Quit has returned:
\* ticketProc begins with the maps of ticketProcStart
Start ==
    /\ steps < MaxOps
    /\ steps' = steps + 1
    /\ procs.quit = "returned"
    /\ procs' = Started(snapshotPath)
    /\ \E p \in Perms(FileIds(snap)) :
           LET start == ticketProcStart(snapshotPath, snap, p) IN
           /\ sessions' = start.sessions
           /\ resources' = start.resources
           /\ last' = Reply("Start", Null, "", "", start.err = "none", start.err, NoTicket)
    /\ UNCHANGED <<nextId, holder, snapshotPath, snap, snapSess>>

\* An engine with or without snapshot path
InitQuit ==
    /\ snapshotPath \in {"", "snaps"}
    /\ Fresh

\* The engine with Quit and Start as the goroutines run them
NextQuit ==
    \/ Next
    \/ SnapshotSessions
    \/ SnapshotResources
    \/ Quit
    \/ SnapshotterQuits
    \/ WriterQuits
    \/ Start

SpecQuit == InitQuit /\ [][NextQuit]_vars

\* The scheduling Quit relies on: a goroutine that can run does run (the
\* snapshotter finishes the tick it is in), and a select whose quit case
\* stays ready takes it in the end
SpecQuitFair ==
    /\ SpecQuit
    /\ WF_vars(SnapshotResources)
    /\ WF_vars(SnapshotterQuits)
    /\ WF_vars(WriterQuits)

\* ---- vocabulary of the properties ----------------------------------------
Live == DOMAIN sessions

HasRes(res, r) == r \in DOMAIN res

HasTick(res, r, n) == r \in DOMAIN res /\ n \in DOMAIN res[r].Tickets

TicketOps == {"IssueTicket", "RevokeTicket", "ClaimTicket", "ReleaseTicket", "HasTicket"}

\* Sessions for which HasTicket answers true on some ticket of r
Claimants(res, ss, r) ==
    {c \in DOMAIN ss : \E n \in DOMAIN res[r].Tickets : res[r].Tickets[n].Claimant = c}

\* ---- C1 -------------------------------------------------------------------
\* C1: ClaimTicket never takes a ticket away from another session.  A
\* ClaimTicket step leaves every ticket claimed by another session with its
\* claimant, the ticket it returns was unclaimed or already the caller's, a
\* resource with k tickets has at most k sessions holding one of them, and
\* when every ticket of the resource is claimed by other sessions the reply
\* is ok=false, no ticket, no error.
C1_ClaimNeverSteals ==
    [][last'.op = "ClaimTicket" =>
        /\ \A r \in DOMAIN resources : \A n \in DOMAIN resources[r].Tickets :
              resources[r].Tickets[n].Claimant \notin {Null, last'.sess}
                  => /\ HasTick(resources', r, n)
                     /\ resources'[r].Tickets[n].Claimant = resources[r].Tickets[n].Claimant
        /\ last'.ok =>
              /\ HasTick(resources, last'.res, last'.ticket.Name)
              /\ resources[last'.res].Tickets[last'.ticket.Name].Claimant \in {Null, last'.sess}
              /\ resources'[last'.res].Tickets[last'.ticket.Name].Claimant = last'.sess
        /\ \A r \in DOMAIN resources' :
              Cardinality(Claimants(resources', sessions', r))
                  <= Cardinality(DOMAIN resources'[r].Tickets)
        /\ ( /\ last'.sess \in Live
             /\ HasRes(resources, last'.res)
             /\ ~resources[last'.res].IsLock
             /\ DOMAIN resources[last'.res].Tickets # {}
             /\ \A n \in DOMAIN resources[last'.res].Tickets :
                   resources[last'.res].Tickets[n].Claimant \notin {Null, last'.sess} )
              => /\ ~last'.ok
                 /\ last'.err = "none"
                 /\ last'.ticket = NoTicket
                 /\ resources' = resources
    ]_vars

\* A ClaimTicket by a live session was refused while every ticket of the
\* resource is validly issued and claimed by another session
C1_Witness ==
    /\ last.op = "ClaimTicket"
    /\ ~last.ok
    /\ last.err = "none"
    /\ last.sess \in Live
    /\ HasRes(resources, last.res)
    /\ DOMAIN resources[last.res].Tickets # {}
    /\ \A n \in DOMAIN resources[last.res].Tickets :
          /\ resources[last.res].Tickets[n].Issuer # Null
          /\ resources[last.res].Tickets[n].Claimant \notin {Null, last.sess}

\* ---- C2 -------------------------------------------------------------------
\* C2: Lock is mutually exclusive.  While s1 holds r (its Lock was answered
\* ok=true and it has not unlocked, been closed or expired), a Lock(s2, r)
\* by another existing session s2 is answered ok=false with no error.
C2_LockMutualExclusion ==
    [][( /\ last'.op = "Lock"
         /\ last'.sess \in Live
         /\ holder[last'.res] \notin {Null, last'.sess} )
          => (~last'.ok /\ last'.err = "none")
    ]_vars

\* ---- C3 -------------------------------------------------------------------
\* C3: when CloseSession(s) succeeds, or the sweep expires s, the state it
\* leaves has no ticket in any resource with issuer s or claimant s.
C3_NoTicketOfRemovedSession ==
    [][last'.op \in {"CloseSession", "expireSessions"} =>
        \A s \in Live \ DOMAIN sessions' :
            \A r \in DOMAIN resources' : \A n \in DOMAIN resources'[r].Tickets :
                /\ resources'[r].Tickets[n].Issuer # s
                /\ resources'[r].Tickets[n].Claimant # s
    ]_vars

\* A session was closed and left behind a ticket it had issued (now without
\* issuer) that another, live session still claims
C3_Witness ==
    /\ last.op = "CloseSession"
    /\ last.ok
    /\ \E r \in DOMAIN resources : \E n \in DOMAIN resources[r].Tickets :
          /\ resources[r].Tickets[n].Issuer = Null
          /\ resources[r].Tickets[n].Claimant \in Live

\* ---- C4 -------------------------------------------------------------------
\* C4: a lock whose holder was closed or expired is free.  When r is held by
\* no live session (r is absent, or is a lock resource that has no ticket or
\* whose ticket has lost its issuer), Lock(s2, r) by a live session s2 is
\* answered ok=true with no error, before the next sweep as well as after.
C4_LockFreedByClose ==
    [][( /\ last'.op = "Lock"
         /\ last'.sess \in Live
         /\ \/ ~HasRes(resources, last'.res)
            \/ /\ resources[last'.res].IsLock
               /\ \A n \in DOMAIN resources[last'.res].Tickets :
                     n = last'.res /\ resources[last'.res].Tickets[n].Issuer \notin Live )
          => (last'.ok /\ last'.err = "none")
    ]_vars

\* ---- C5 -------------------------------------------------------------------
\* C5: closing or expiring the issuer invalidates its tickets.  CloseSession
\* leaves the tickets the session issued without issuer, ClaimTicket only
\* ever returns a ticket whose issuer is a live session, and the sweep leaves
\* no ticket behind whose issuer is null.
C5_IssuerDeathInvalidates ==
    [][/\ (last'.op = "CloseSession" /\ last'.ok) =>
              \A r \in DOMAIN resources : \A n \in DOMAIN resources[r].Tickets :
                  resources[r].Tickets[n].Issuer = last'.sess
                      => /\ HasTick(resources', r, n)
                         /\ resources'[r].Tickets[n].Issuer = Null
       /\ (last'.op = "ClaimTicket" /\ last'.ok) =>
              /\ last'.ticket.Issuer \in Live
              /\ HasTick(resources, last'.res, last'.ticket.Name)
              /\ resources[last'.res].Tickets[last'.ticket.Name].Issuer = last'.ticket.Issuer
       /\ last'.op = "expireSessions" =>
              \A r \in DOMAIN resources' : \A n \in DOMAIN resources'[r].Tickets :
                  resources'[r].Tickets[n].Issuer \in DOMAIN sessions'
    ]_vars

\* A ClaimTicket was refused although the resource has an unclaimed ticket:
\* the ticket has lost its issuer and the sweep has not run yet
C5_Witness ==
    /\ last.op = "ClaimTicket"
    /\ ~last.ok
    /\ last.err = "none"
    /\ last.sess \in Live
    /\ \E n \in TicketNames :
          /\ HasTick(resources, last.res, n)
          /\ resources[last.res].Tickets[n].Issuer = Null
          /\ resources[last.res].Tickets[n].Claimant = Null

\* ---- C6 -------------------------------------------------------------------
\* C6: every entry of a session's claimed sequence names a ticket that
\* exists in its resource and whose claimant is that session.
C6_ClaimedListConsistent ==
    \A s \in Live : \A k \in Range(sessions[s].Tickets) :
        /\ HasTick(resources, k.ResourceName, k.Name)
        /\ resources[k.ResourceName].Tickets[k.Name].Claimant = s

\* ---- C7 -------------------------------------------------------------------
\* C7: every entry of a session's issued sequence names a ticket whose
\* issuer, when the ticket is still in its resource, is that session or null.
C7_IssuedListConsistent ==
    \A s \in Live : \A k \in Range(sessions[s].Issuances) :
        HasTick(resources, k.ResourceName, k.Name)
            => resources[k.ResourceName].Tickets[k.Name].Issuer \in {s, Null}

\* ---- C8 -------------------------------------------------------------------
\* C8: the state a sweep leaves has no ticket without issuer and no resource
\* without tickets, and no expired session: one sweep completes the cascade.
C8_SweepCompletesCascade ==
    last.op = "expireSessions" =>
        /\ \A s \in Live : sessions[s].expires >= 0
        /\ \A r \in DOMAIN resources :
              /\ DOMAIN resources[r].Tickets # {}
              /\ \A n \in DOMAIN resources[r].Tickets : resources[r].Tickets[n].Issuer # Null

\* A sweep that expired a session left no resource, while a session that
\* stayed alive still lists a ticket it had claimed
C8_Witness ==
    /\ last.op = "expireSessions"
    /\ last.ok
    /\ Live # {}
    /\ resources = EmptyMap
    /\ \E s \in Live : \E k \in Range(sessions[s].Tickets) : TRUE

C10_ResourceKindsExclusive ==
    [][/\ ( /\ last'.op \in TicketOps
            /\ last'.sess \in Live
            /\ HasRes(resources, last'.res)
            /\ resources[last'.res].IsLock )
              => (last'.err = "ResourceType" /\ resources' = resources)
       /\ ( /\ last'.op \in {"Lock", "Unlock"}
            /\ last'.sess \in Live
            /\ HasRes(resources, last'.res)
            /\ ~resources[last'.res].IsLock )
              => (last'.err = "ResourceType" /\ resources' = resources)
    ]_vars

\* Names of the tickets of r that the claim loop can hand to session s
Avail(res, r, s) ==
    IF HasRes(res, r) /\ ~res[r].IsLock
    THEN {n \in DOMAIN res[r].Tickets :
             /\ res[r].Tickets[n].Issuer # Null
             /\ res[r].Tickets[n].Claimant \in {Null, s}}
    ELSE {}

\* ---- C11 ------------------------------------------------------------------
\* C11: for an existing session s, ClaimTicket(s, r) answers ok=true exactly
\* when r exists, is ticket-bearing and has a ticket with issuer # null and
\* claimant in {null, s}, and the ticket it returns is such a ticket of r,
\* now claimed by s; when r does not exist or r has no such ticket the answer
\* is ok=false, no ticket, no error, and sessions and resources are unchanged.
C11_ClaimTicketContract ==
    [][(last'.op = "ClaimTicket" /\ last'.sess \in Live) =>
        LET av == Avail(resources, last'.res, last'.sess) IN
        /\ last'.ok <=> (av # {})
        /\ last'.ok =>
              /\ last'.err = "none"
              /\ last'.ticket.ResourceName = last'.res
              /\ last'.ticket.Name \in av
              /\ last'.ticket.Claimant = last'.sess
        /\ ( \/ ~HasRes(resources, last'.res)
             \/ (~resources[last'.res].IsLock /\ av = {}) )
              => /\ ~last'.ok
                 /\ last'.err = "none"
                 /\ last'.ticket = NoTicket
                 /\ sessions' = sessions
                 /\ resources' = resources
    ]_vars

\* A ClaimTicket returned a ticket of a resource that also has a ticket the
\* caller could not have been given (claimed by another session)
C11_Witness ==
    /\ last.op = "ClaimTicket"
    /\ last.ok
    /\ HasTick(resources, last.res, last.ticket.Name)
    /\ resources[last.res].Tickets[last.ticket.Name].Claimant = last.sess
    /\ \E m \in DOMAIN resources[last.res].Tickets :
          /\ m # last.ticket.Name
          /\ resources[last.res].Tickets[m].Claimant \notin {Null, last.sess}

\* ---- C12 ------------------------------------------------------------------
\* C12 (as stated): after ReleaseTicket(c, r, n) by the session that holds
\* ticket n, the ticket has no claimant, c's claimed sequence has no entry
\* for it, and every other session for which the claim loop found no ticket
\* on r before the release is now given ticket n.
C12_ReleaseHandsOver_Original ==
    [][( /\ last'.op = "ReleaseTicket"
         /\ last'.sess \in Live
         /\ HasTick(resources, last'.res, last'.name)
         /\ resources[last'.res].Tickets[last'.name].Claimant = last'.sess )
          => /\ last'.err = "none"
             /\ HasTick(resources', last'.res, last'.name)
             /\ resources'[last'.res].Tickets[last'.name].Claimant = Null
             /\ Key(last'.res, last'.name) \notin Range(sessions'[last'.sess].Tickets)
             /\ \A s2 \in Live \ {last'.sess} :
                   Avail(resources, last'.res, s2) = {}
                       => Avail(resources', last'.res, s2) = {last'.name}
    ]_vars

\* C12 (amended): after ReleaseTicket(c, r, n) by the session that holds
\* ticket n, the ticket has no claimant and c's claimed sequence has no entry
\* for it; every other session for which the claim loop found no ticket on r
\* before the release is now given ticket n when the ticket still has an
\* issuer, and still finds no ticket when the issuer was closed or expired.
C12_ReleaseHandsOver ==
    [][( /\ last'.op = "ReleaseTicket"
         /\ last'.sess \in Live
         /\ HasTick(resources, last'.res, last'.name)
         /\ resources[last'.res].Tickets[last'.name].Claimant = last'.sess )
          => /\ last'.err = "none"
             /\ HasTick(resources', last'.res, last'.name)
             /\ resources'[last'.res].Tickets[last'.name].Claimant = Null
             /\ Key(last'.res, last'.name) \notin Range(sessions'[last'.sess].Tickets)
             /\ \A s2 \in Live \ {last'.sess} :
                   Avail(resources, last'.res, s2) = {}
                       => Avail(resources', last'.res, s2) =
                              IF resources[last'.res].Tickets[last'.name].Issuer # Null
                              THEN {last'.name} ELSE {}
    ]_vars

\* A session released a ticket it held, the ticket has a live issuer, and
\* another live session, which could claim nothing on the resource before,
\* can now claim exactly that ticket
C12_Witness ==
    /\ last.op = "ReleaseTicket"
    /\ last.ticket.Name = last.name
    /\ last.ticket.ResourceName = last.res
    /\ HasTick(resources, last.res, last.name)
    /\ resources[last.res].Tickets[last.name].Claimant = Null
    /\ resources[last.res].Tickets[last.name].Issuer \in Live
    /\ Cardinality(DOMAIN resources[last.res].Tickets) > 1
    /\ \E s2 \in Live \ {last.sess} : Avail(resources, last.res, s2) = {last.name}

\* ---- C13 ------------------------------------------------------------------
\* C13: IssueTicket for a (resource, name) that already exists, by the same
\* or by another session, replaces the ticket, makes the caller its issuer
\* and carries the claimant over: a session that held the ticket before the
\* re-issue still holds it, and the claim loop offers the ticket to no other
\* session while it is held.
C13_ReissueKeepsClaimant ==
    [][( /\ last'.op = "IssueTicket"
         /\ last'.sess \in Live
         /\ HasTick(resources, last'.res, last'.name)
         /\ ~resources[last'.res].IsLock )
          => /\ last'.err = "none"
             /\ HasTick(resources', last'.res, last'.name)
             /\ resources'[last'.res].Tickets[last'.name].Issuer = last'.sess
             /\ resources'[last'.res].Tickets[last'.name].Claimant =
                    resources[last'.res].Tickets[last'.name].Claimant
             /\ \A c \in Live :
                   resources[last'.res].Tickets[last'.name].Claimant = c
                       => /\ c \in DOMAIN sessions'
                          /\ \A s2 \in (DOMAIN sessions') \ {c} :
                                last'.name \notin Avail(resources', last'.res, s2)
    ]_vars

\* A session re-issued a ticket that another session had issued and that a
\* live session other than the caller holds: the claimant is still there
C13_Witness ==
    /\ last.op = "IssueTicket"
    /\ last.ok
    /\ HasTick(resources, last.res, last.name)
    /\ resources[last.res].Tickets[last.name].Issuer = last.sess
    /\ resources[last.res].Tickets[last.name].Claimant \in Live \ {last.sess}
    /\ \E s \in Live \ {last.sess} :
          Key(last.res, last.name) \in Range(sessions[s].Issuances)

\* ---- C14 ------------------------------------------------------------------
\* C14: RevokeTicket(s, r, n) by any existing session, whether or not it
\* issued the ticket, removes ticket n from r; a ticket that is not in its
\* resource comes back only by being issued again (IssueTicket, or Lock for
\* the ticket of a lock), and as long as it is not there HasTicket answers
\* false for it and ClaimTicket does not return it.
C14_RevokeRemoves ==
    [][/\ ( /\ last'.op = "RevokeTicket"
            /\ last'.sess \in Live
            /\ HasTick(resources, last'.res, last'.name) )
              => /\ last'.err = "none"
                 /\ ~HasTick(resources', last'.res, last'.name)
       /\ \A r \in ResourceNames : \A n \in TicketNames :
             (~HasTick(resources, r, n) /\ HasTick(resources', r, n))
                 => /\ last'.res = r
                    /\ last'.ok
                    /\ \/ last'.op = "IssueTicket" /\ last'.name = n
                       \/ last'.op = "Lock" /\ n = r
       /\ (last'.op = "HasTicket" /\ ~HasTick(resources, last'.res, last'.name))
              => ~last'.ok
       /\ (last'.op = "ClaimTicket" /\ last'.ok)
              => HasTick(resources, last'.res, last'.ticket.Name)
    ]_vars

\* The second session revoked a ticket that the first one had issued and
\* claimed: five closures (two OpenSession, IssueTicket, ClaimTicket,
\* RevokeTicket) leave no room for the revoker to have issued it itself
C14_Witness ==
    /\ last.op = "RevokeTicket"
    /\ last.ok
    /\ steps = 5
    /\ ~HasTick(resources, last.res, last.name)
    /\ \E s \in Live \ {last.sess} :
          /\ Key(last.res, last.name) \in Range(sessions[s].Issuances)
          /\ Key(last.res, last.name) \in Range(sessions[s].Tickets)

\* ---- C15 ------------------------------------------------------------------
\* C15: after ticket n of r was revoked, HasTicket(c, r, n) by the still-live
\* former claimant c (c still lists n as claimed, n is no longer in r) is
\* answered ok=false with no error, whether or not a sweep ran in between.
C15_HasTicketAfterRevoke ==
    [][( /\ last'.op = "HasTicket"
         /\ last'.sess \in Live
         /\ Key(last'.res, last'.name) \in Range(sessions[last'.sess].Tickets)
         /\ ~HasTick(resources, last'.res, last'.name) )
          => (~last'.ok /\ last'.err = "none")
    ]_vars

\* Operations that name a session
SessionOps ==
    TicketOps \cup {"CloseSession", "RefreshSession", "GetSession", "Lock", "Unlock"}

\* ---- C16 ------------------------------------------------------------------
\* C16: a sweep removes every session whose deadline has passed (a session
\* that was neither refreshed nor used to issue since), a removed session
\* never comes back, and RefreshSession, GetSession, CloseSession and every
\* ticket or lock operation naming a removed session is answered NotFound.
C16_ExpiredSessionRemoved ==
    [][/\ last'.op = "expireSessions" =>
              \A s \in Live : sessions[s].expires < 0 => s \notin DOMAIN sessions'
       /\ \A s \in 1..(nextId - 1) : s \notin Live => s \notin DOMAIN sessions'
       /\ ( /\ last'.op \in SessionOps
            /\ last'.sess \in 1..(nextId - 1)
            /\ last'.sess \notin Live )
              => (~last'.ok /\ last'.err = "NotFound")
    ]_vars

\* A sweep has just removed an expired session (it logged the expiry) and
\* kept another one whose deadline has not passed
C16_Witness ==
    /\ last.op = "expireSessions"
    /\ last.ok
    /\ \E s \in Live : sessions[s].expires >= 0
    /\ \E s \in 1..(nextId - 1) : s \notin Live

\* ---- C17 ------------------------------------------------------------------
\* C17: a session is removed only by its CloseSession or by a sweep that runs
\* after its deadline; RefreshSession and IssueTicket re-arm the deadline to
\* the full ttl, and a sweep leaves a session whose deadline has not passed
\* as it is, together with the tickets and locks it issued and with its
\* claims on tickets whose issuer the sweep does not expire.
C17_RemovedOnlyByCloseOrExpiry ==
    [][/\ \A s \in Live : s \notin DOMAIN sessions' =>
              \/ last'.op = "CloseSession" /\ last'.sess = s /\ last'.ok
              \/ last'.op = "expireSessions" /\ sessions[s].expires < 0
       /\ ( /\ last'.op \in {"RefreshSession", "IssueTicket"}
            /\ last'.sess \in Live )
              => /\ last'.sess \in DOMAIN sessions'
                 /\ sessions'[last'.sess].expires = sessions'[last'.sess].Ttl
       /\ last'.op = "expireSessions" =>
              \A s \in Live : sessions[s].expires >= 0 =>
                  /\ s \in DOMAIN sessions'
                  /\ sessions'[s] = sessions[s]
                  /\ \A r \in DOMAIN resources : \A n \in DOMAIN resources[r].Tickets :
                        LET t == resources[r].Tickets[n] IN
                        /\ t.Issuer = s
                              => /\ HasTick(resources', r, n)
                                 /\ resources'[r].Tickets[n].Issuer = s
                        /\ (t.Claimant = s /\ t.Issuer \in Live /\ sessions[t.Issuer].expires >= 0)
                              => /\ HasTick(resources', r, n)
                                 /\ resources'[r].Tickets[n].Claimant = s
    ]_vars

\* ---- C18 ------------------------------------------------------------------
\* C18: a CloseSession that succeeds removes the session at once; after it,
\* CloseSession, RefreshSession, GetSession and every ticket or lock
\* operation with that id, and any operation with an id that was never
\* opened, is answered NotFound and changes neither sessions nor resources.
C18_ClosedSessionNotFound ==
    [][/\ (last'.op = "CloseSession" /\ last'.ok) =>
              /\ last'.sess \in Live
              /\ last'.sess \notin DOMAIN sessions'
       /\ (last'.op \in SessionOps /\ last'.sess \notin Live) =>
              /\ ~last'.ok
              /\ last'.err = "NotFound"
              /\ last'.ticket = NoTicket
              /\ last'.session = NoSession
              /\ sessions' = sessions
              /\ resources' = resources
    ]_vars

\* The only session ever opened was closed and a second CloseSession of it
\* was answered NotFound: three closures leave no room for an expiry (an
\* expiry needs two ticks and a sweep)
C18_Witness ==
    /\ last.op = "CloseSession"
    /\ last.err = "NotFound"
    /\ last.sess = 1
    /\ nextId = 2
    /\ steps = 3
    /\ Live = {}

\* The state that load returned is the state the snapshotter read: every
\* session with its id, ttl and the same sets of claimed and of issued
\* (resource, name) pairs, every resource with its kind, every ticket with
\* its name and the identity of its issuer and of its claimant
RoundTrip(st, ss, res) ==
    /\ DOMAIN ss = DOMAIN st.sessions
    /\ \A id \in DOMAIN ss :
          /\ ss[id].Ttl = st.sessions[id].Ttl
          /\ Range(ss[id].Tickets) = Range(st.sessions[id].Tickets)
          /\ Range(ss[id].Issuances) = Range(st.sessions[id].Issuances)
    /\ DOMAIN res = DOMAIN st.resources
    /\ \A r \in DOMAIN res :
          /\ res[r].IsLock = st.resources[r].IsLock
          /\ DOMAIN res[r].Tickets = DOMAIN st.resources[r].Tickets
          /\ \A n \in DOMAIN res[r].Tickets :
                /\ res[r].Tickets[n].Issuer = st.resources[r].Tickets[n].Issuer
                /\ res[r].Tickets[n].Claimant = st.resources[r].Tickets[n].Claimant

\* ---- C19 ------------------------------------------------------------------
\* C19: snapshot followed by load is a round trip.  When the engine is
\* stopped and started on a snapshot that shows one reachable state, the
\* state it starts with has the sessions, the claimed and issued pairs and
\* the tickets with the issuers and claimants of that state.
C19_SnapshotRoundTrip ==
    [][(last'.op = "Restart" /\ snap.exists /\ snap.oneState)
          => RoundTrip(snap.state, sessions', resources')
    ]_vars

\* ---- C20 ------------------------------------------------------------------
\* C20: the snapshot is reloaded on restart.  When the engine is stopped and
\* started on a snapshot written from one reachable state, loadSnapshot
\* returns no error and the engine starts with the sessions and resources of
\* the snapshot, not empty.
C20_SnapshotLoads ==
    [][(last'.op = "Restart" /\ snap.exists /\ snap.oneState)
          => /\ last'.ok
             /\ last'.err = "none"
             /\ DOMAIN sessions' = DOMAIN snap.state.sessions
             /\ DOMAIN resources' = DOMAIN snap.state.resources
    ]_vars

\* ---- C21 ------------------------------------------------------------------
\* The sessions file names, in a claimed or issued list, a resource or a
\* ticket that the resources file does not have
FileDangling ==
    \E e \in snap.sessions :
        \E k \in Range(unGobSlice(e.Tickets)) \cup Range(unGobSlice(e.Issuances)) :
            ~\E r \in snap.resources : r.Name = k.ResourceName /\ k.Name \in DOMAIN r.Tickets

\* A step in which ticketProc begins again: after Quit and Start, or after
\* a recovered panic
WriterStarts == last'.op \in {"Restart", "Start"} \/ last'.err = "panic"

\* C21: when the snapshot cannot be loaded (no files, or a session list
\* entry that the resources file does not have) the writer starts with empty
\* sessions and resources, exactly as an engine without snapshot does, and
\* never with a part of what the files hold; otherwise it starts with the
\* sessions and the resources of the files.
C21_FailedLoadStartsEmpty ==
    [][(WriterStarts /\ snapshotPath # "") =>
          IF ~snap.exists \/ FileDangling
          THEN /\ sessions' = EmptyMap
               /\ resources' = EmptyMap
               /\ last'.err # "panic" => ~last'.ok /\ last'.err \in {"NoFile", "Corrupt"}
          ELSE /\ DOMAIN sessions' = FileIds(snap)
               /\ DOMAIN resources' = {r.Name : r \in snap.resources}
               /\ last'.err # "panic" => last'.ok]_vars

\* A start that found a dangling entry in the files, and began empty
C21_Witness ==
    /\ last.op = "Restart"
    /\ last.err = "Corrupt"
    /\ snap.exists
    /\ snap.sessions # {}
    /\ sessions = EmptyMap
    /\ resources = EmptyMap

\* ---- C22 ------------------------------------------------------------------
\* C22: every session that a start of the writer restores from the snapshot
\* has its full ttl ahead of it (expires = load time + Ttl), whatever its
\* deadline was when the snapshot was taken and however much time has passed
\* since; and a sweep removes only sessions whose deadline has passed, so no
\* restored session is swept before its ttl has run out.
C22_RestoredSessionsRefreshed ==
    [][/\ WriterStarts =>
              \A id \in DOMAIN sessions' : sessions'[id].expires = sessions'[id].Ttl
       /\ last'.op = "expireSessions" =>
              \A id \in DOMAIN sessions \ DOMAIN sessions' : sessions[id].expires < 0]_vars

\* A start that loaded the snapshot and restored a session
C22_Witness ==
    /\ last.op = "Restart"
    /\ last.ok
    /\ sessions # EmptyMap
    /\ \A id \in DOMAIN sessions : sessions[id].expires = sessions[id].Ttl

\* ---- C23 ------------------------------------------------------------------
\* Number of entries of a session list with key k
Count(seq, k) == Cardinality({i \in 1..Len(seq) : seq[i] = k})

\* C23: Lock is idempotent for the holder.  Lock(s, r) by a live session s
\* that is the issuer of the lock ticket of r is answered ok=true without
\* error and changes neither the sessions nor the resources: r still has
\* exactly one ticket, the lock ticket issued by s, and the issued list of
\* s has its key exactly once.
C23_LockIdempotent ==
    [][\A s \in SessionIds, r \in ResourceNames :
          ( /\ last'.op = "Lock"
            /\ last'.sess = s
            /\ last'.res = r
            /\ s \in Live
            /\ HasTick(resources, r, r)
            /\ resources[r].IsLock
            /\ resources[r].Tickets[r].Issuer = s )
          => /\ last'.ok
             /\ last'.err = "none"
             /\ sessions' = sessions
             /\ resources' = resources
             /\ DOMAIN resources'[r].Tickets = {r}
             /\ resources'[r].Tickets[r].Issuer = s
             /\ Count(sessions'[s].Issuances, Key(r, r)) = 1]_vars

\* A Lock by the holder: it found its own lock ticket in place
C23_Witness ==
    /\ last.op = "Lock"
    /\ last.ok
    /\ last.ticket # NoTicket
    /\ last.ticket.Issuer = last.sess
    /\ HasTick(resources, last.res, last.res)
    /\ resources[last.res].Tickets[last.res].Issuer = last.sess

C25_NothingOutlivesSessions ==
    (last.op = "expireSessions" /\ Live = {}) => resources = EmptyMap

\* ---- C26 ------------------------------------------------------------------
\* C26: Quit on a started engine, with or without snapshot path, always
\* returns: a Quit that was called has returned some time later.  While
\* it waits for the snapshotter, the snapshotter is in its loop and the
\* writer is in its loop to serve the reads of a tick that is under way.
\* While it waits for the writer, the writer is in its loop and the
\* snapshotter, if there is one, has already stopped outside a tick.  The
\* writer never stops before the snapshotter, so the snapshotter is never
\* left with a read for a stopped writer.  Quit returns only when both
\* loops have confirmed their end, and once it has returned the latest
\* step is its return until the next Start: no closure, no sweep and no
\* snapshot runs.
C26_QuitStopsInOrder ==
    /\ [](/\ procs.quit = "snap"
               => /\ procs.snapshotter = "loop"
                  /\ procs.writer = "loop"
          /\ procs.quit = "writer"
               => /\ procs.writer = "loop"
                  /\ procs.snapshotter \in {"none", "stopped"}
                  /\ ~snapSess.busy
          /\ procs.writer = "stopped"
               => /\ procs.snapshotter \in {"none", "stopped"}
                  /\ ~snapSess.busy
                  /\ procs.quit = "returned"
          /\ procs.quit = "returned"
               => /\ procs.writer = "stopped"
                  /\ last.op = "Quit"
                  /\ last.ok
          /\ (procs.snapshotter = "none") = (snapshotPath = ""))
    /\ (procs.quit \in {"snap", "writer"}) ~> (procs.quit = "returned")

\* Quit has returned on an engine with snapshots whose snapshotter had
\* written its files: both loops have stopped
C26_Witness ==
    /\ procs.quit = "returned"
    /\ procs.writer = "stopped"
    /\ procs.snapshotter = "stopped"
    /\ snap.exists
    /\ last.op = "Quit"
    /\ last.ok

\* ---- C28 ------------------------------------------------------------------
\* C28: after a panic inside the writer, the writer goes on with fresh,
\* empty sessions and resources and does not load the snapshot, also when
\* a snapshot path is configured.
C28_PanicRestartsEmpty ==
    [][last'.err = "panic" => (sessions' = EmptyMap /\ resources' = EmptyMap)]_vars

\* ---- C29 ------------------------------------------------------------------
\* C29: every operation runs to completion and its caller receives the
\* reply: in no reachable state does a closure make the writer panic, which
\* would leave its caller waiting on its result channel for good.
C29_EveryOperationAnswers ==
    last.err # "panic"

\* ---- C30 ------------------------------------------------------------------
\* C30: a session claims exactly one ticket of a resource.  No session is
\* the claimant of two tickets of the same resource at the same time, and a
\* ClaimTicket(s, r) by a session that already is the claimant of a ticket
\* of r is answered with that same ticket.
C30_OneClaimPerResource ==
    [][/\ \A r \in DOMAIN resources' : \A s \in SessionIds :
              Cardinality({n \in DOMAIN resources'[r].Tickets :
                              resources'[r].Tickets[n].Claimant = s}) <= 1
       /\ \A s \in SessionIds, r \in ResourceNames, n \in TicketNames :
              ( /\ last'.op = "ClaimTicket"
                /\ last'.sess = s
                /\ last'.res = r
                /\ s \in Live
                /\ HasTick(resources, r, n)
                /\ ~resources[r].IsLock
                /\ resources[r].Tickets[n].Issuer # Null
                /\ resources[r].Tickets[n].Claimant = s )
              => /\ last'.ok
                 /\ last'.ticket.Name = n]_vars

\* ---- C31 ------------------------------------------------------------------
\* C31: after IssueTicket by session B has taken over a ticket that session
\* A issued, the next sweep drops the ticket from the issued list of A: in
\* the state a sweep leaves, no session lists as issued a ticket whose
\* issuer is another session.
C31_SweepDropsTakenOver ==
    last.op = "expireSessions" =>
        \A a \in Live : \A k \in Range(sessions[a].Issuances) :
            HasTick(resources, k.ResourceName, k.Name)
                => resources[k.ResourceName].Tickets[k.Name].Issuer = a

\* ---- C32 ------------------------------------------------------------------
\* The sessions that a step removes
Removed == DOMAIN sessions \ DOMAIN sessions'

\* C32: the cleanup of a removed session resolves its list entries by
\* (resource, name) and clears only what the session still owns.  When
\* CloseSession or the sweep removes sessions, a ticket whose issuer is a
\* session that stays (for instance B, after B took over a ticket that the
\* removed A still lists as issued) stays in its resource with that issuer,
\* and its claimant stays unless the claimant itself is removed; and a
\* ticket keeps a claimant that stays, also when a removed session still
\* lists the ticket as claimed.
C32_CleanupChecksOwnership ==
    [][(last'.err # "panic" /\ Removed # {}) =>
          \A r \in DOMAIN resources : \A n \in DOMAIN resources[r].Tickets :
              LET t == resources[r].Tickets[n] IN
              /\ (t.Issuer \in DOMAIN sessions')
                     => /\ HasTick(resources', r, n)
                        /\ resources'[r].Tickets[n].Issuer = t.Issuer
                        /\ resources'[r].Tickets[n].Claimant =
                               IF t.Claimant \in Removed THEN Null ELSE t.Claimant
              /\ (t.Claimant \in DOMAIN sessions' /\ HasTick(resources', r, n))
                     => resources'[r].Tickets[n].Claimant = t.Claimant]_vars

\* CloseSession of a session that listed as issued a ticket which another
\* session had taken over: the ticket is still there, issued by the other
C32_Witness ==
    /\ last.op = "CloseSession"
    /\ last.err = "none"
    /\ \E k \in Range(last.session.Issuances) :
           /\ HasTick(resources, k.ResourceName, k.Name)
           /\ resources[k.ResourceName].Tickets[k.Name].Issuer \in Live

\* ---- C33 ------------------------------------------------------------------
\* C33: the deadline of a session is set only by OpenSession (for the new
\* session), by RefreshSession and IssueTicket on behalf of that session
\* (to now + Ttl, for IssueTicket also when it fails on a lock resource),
\* and by the snapshot load of a start of the writer.  Every other closure
\* (ClaimTicket, ReleaseTicket, HasTicket, RevokeTicket, Lock, Unlock,
\* GetSession, CloseSession, the sweep, and the GetSessions and GetResources
\* of the snapshotter) leaves the deadline of every session that it keeps
\* as it was.  Tick is the passing of time, which moves no deadline.
C33_DeadlineFrame ==
    [][(~WriterStarts /\ last'.op # "Tick") =>
          /\ \A id \in DOMAIN sessions \cap DOMAIN sessions' :
                 \/ sessions'[id].expires = sessions[id].expires
                 \/ /\ last'.op \in {"RefreshSession", "IssueTicket"}
                    /\ last'.sess = id
          /\ \A id \in DOMAIN sessions' \ DOMAIN sessions :
                 last'.op = "OpenSession" /\ last'.sess = id
          /\ ( /\ last'.op \in {"RefreshSession", "IssueTicket"}
               /\ last'.sess \in DOMAIN sessions
               /\ last'.err # "panic" )
               => /\ last'.sess \in DOMAIN sessions'
                  /\ sessions'[last'.sess].expires = sessions'[last'.sess].Ttl]_vars

\* A successful ClaimTicket by a session whose deadline is closer than its
\* ttl: the claim did not move it
C33_Witness ==
    /\ last.op = "ClaimTicket"
    /\ last.ok
    /\ last.sess \in Live
    /\ sessions[last.sess].expires < sessions[last.sess].Ttl

\* ---- C34 ------------------------------------------------------------------
\* C34: a resource comes into the table only through an IssueTicket (as a
\* ticket resource) or a Lock (as a lock resource) that names an absent
\* resource; it leaves the table only in a sweep, and only when the sweep
\* leaves it no ticket (every ticket it had was without an issuer that
\* survives the sweep); and while it is in the table its IsLock tag stays.
C34_ResourceLifeCycle ==
    [][\A r \in ResourceNames :
          /\ (~HasRes(resources, r) /\ HasRes(resources', r))
                 => /\ last'.res = r
                    /\ \/ last'.op = "IssueTicket" /\ ~resources'[r].IsLock
                       \/ last'.op = "Lock" /\ resources'[r].IsLock
          /\ (HasRes(resources, r) /\ ~HasRes(resources', r))
                 => /\ last'.op = "expireSessions"
                    /\ \A n \in DOMAIN resources[r].Tickets :
                           resources[r].Tickets[n].Issuer \notin DOMAIN sessions'
          /\ (HasRes(resources, r) /\ HasRes(resources', r))
                 => resources'[r].IsLock = resources[r].IsLock]_vars

\* ---- C35 ------------------------------------------------------------------
\* C35: ReleaseTicket(s, r, n) for a live session s and a resource r of the
\* table, when r has no ticket n or ticket n is claimed by another session
\* or by nobody, is answered without error and changes neither the sessions
\* nor the resources: in particular the claim of another session stays.
C35_ReleaseNoOp ==
    [][\A s \in SessionIds, r \in ResourceNames, n \in TicketNames :
          ( /\ last'.op = "ReleaseTicket"
            /\ last'.sess = s
            /\ last'.res = r
            /\ last'.name = n
            /\ s \in Live
            /\ HasRes(resources, r)
            /\ ~(HasTick(resources, r, n) /\ resources[r].Tickets[n].Claimant = s) )
          => /\ last'.err = "none"
             /\ sessions' = sessions
             /\ resources' = resources]_vars

\* A ReleaseTicket by a session of a ticket that another live session holds
C35_Witness ==
    /\ last.op = "ReleaseTicket"
    /\ last.err = "none"
    /\ last.ticket = NoTicket
    /\ last.sess \in Live
    /\ HasTick(resources, last.res, last.name)
    /\ resources[last.res].Tickets[last.name].Claimant \in Live \ {last.sess}

\* ---- C36 ------------------------------------------------------------------
\* C36: a successful Unlock leaves the resource in the table, without
\* ticket and still a lock resource, and a successful RevokeTicket leaves
\* the resource in the table with its tag (without ticket when it revoked
\* the last one). A resource without ticket stays, with its tag, through
\* every operation that is not a sweep (the restarts of the writer, which
\* replace the whole table, are the matter of C34): an IssueTicket on it
\* when it is a lock resource and a Lock on it when it is a ticket resource
\* fail with ResourceType and leave the resources alone. The sweep removes
\* it, and an IssueTicket or a Lock that names an absent resource creates it
\* with the type of the operation.
C36_EmptyResourceKeepsType ==
    [][\A r \in ResourceNames :
          /\ (last'.op = "Unlock" /\ last'.ok /\ last'.res = r)
                 => /\ HasRes(resources', r)
                    /\ DOMAIN resources'[r].Tickets = {}
                    /\ resources'[r].IsLock
          /\ (last'.op = "RevokeTicket" /\ last'.ok /\ last'.res = r)
                 => /\ HasRes(resources', r)
                    /\ resources'[r].IsLock = resources[r].IsLock
                    /\ DOMAIN resources'[r].Tickets = DOMAIN resources[r].Tickets \ {last'.name}
          /\ (HasRes(resources, r) /\ DOMAIN resources[r].Tickets = {})
                 => /\ (last'.op # "expireSessions" /\ ~WriterStarts)
                           => /\ HasRes(resources', r)
                              /\ resources'[r].IsLock = resources[r].IsLock
                    /\ ( /\ last'.res = r
                         /\ last'.sess \in Live
                         /\ \/ last'.op = "IssueTicket" /\ resources[r].IsLock
                            \/ last'.op = "Lock" /\ ~resources[r].IsLock )
                           => /\ last'.err = "ResourceType"
                              /\ resources' = resources
                    /\ last'.op = "expireSessions" => ~HasRes(resources', r)
          /\ ( /\ ~HasRes(resources, r)
               /\ last'.res = r
               /\ last'.sess \in Live
               /\ last'.op \in {"IssueTicket", "Lock"} )
                 => /\ last'.ok
                    /\ last'.err = "none"
                    /\ HasRes(resources', r)
                    /\ resources'[r].IsLock = (last'.op = "Lock")]_vars

\* An IssueTicket refused on a lock resource that has no ticket: the lock
\* was released and no sweep has run since
C36_Witness ==
    /\ last.op = "IssueTicket"
    /\ last.err = "ResourceType"
    /\ HasRes(resources, last.res)
    /\ resources[last.res].IsLock
    /\ DOMAIN resources[last.res].Tickets = {}

\* ---- C37 ------------------------------------------------------------------
\* C37: between the snapshotter's read of the sessions (GetSessions) and its
\* read of the resources (GetResources) no operation and no sweep changes
\* the sessions or the resources, so that the two files of one snapshot
\* show one state of the engine. The passing of time is not an operation.
C37_SnapshotReadsOneState ==
    [][(snapSess.busy /\ last'.op # "Tick")
           => /\ sessions' = sessions
              /\ resources' = resources]_vars

\* ---- C38 ------------------------------------------------------------------
\* C38: in every state every ticket of the resources whose Claimant is not
\* nil has that session in the sessions, with the ticket's (ResourceName,
\* Name) in its Tickets, and every ticket whose Issuer is not nil has that
\* session in the sessions, with the ticket's key in its Issuances.
C38_TicketsReferToListingSessions ==
    \A r \in DOMAIN resources : \A n \in DOMAIN resources[r].Tickets :
        LET t == resources[r].Tickets[n] IN
        /\ t.Claimant # Null
               => /\ t.Claimant \in Live
                  /\ Key(r, n) \in Range(sessions[t.Claimant].Tickets)
        /\ t.Issuer # Null
               => /\ t.Issuer \in Live
                  /\ Key(r, n) \in Range(sessions[t.Issuer].Issuances)

\* ---- C39 ------------------------------------------------------------------
\* C39: an operation answered with an error (NotFound, ResourceType,
\* Malformed, UnknownTicket) leaves the resources as they were, and so no
\* resource that it would have created; it leaves the sessions as they
\* were, except that an IssueTicket refused with ResourceType has refreshed
\* the deadline of the issuing session and changed nothing else.
C39_ErrorsChangeNothing ==
    [][last'.err \in {"NotFound", "ResourceType", "Malformed", "UnknownTicket"}
           => /\ resources' = resources
              /\ sessions' = IF last'.op = "IssueTicket" /\ last'.err = "ResourceType"
                             THEN [sessions EXCEPT ![last'.sess] = refresh(@)]
                             ELSE sessions]_vars

\* An IssueTicket refused on a lock resource, by a session whose deadline is
\* the full ttl afterwards and that has issued and claimed nothing
C39_Witness ==
    /\ last.op = "IssueTicket"
    /\ last.err = "ResourceType"
    /\ last.sess \in Live
    /\ sessions[last.sess].expires = sessions[last.sess].Ttl
    /\ sessions[last.sess].Issuances = << >>
    /\ HasRes(resources, last.res)
    /\ resources[last.res].IsLock

\* ---- C40 ------------------------------------------------------------------
\* C40: a session whose deadline has passed and that no sweep has removed
\* is treated as every other session. An operation that names it is not
\* refused for the session's sake: RefreshSession, GetSession and
\* CloseSession succeed, IssueTicket is not answered with NotFound,
\* HasTicket confirms a ticket it holds and Lock a lock it holds. While
\* others act, the tickets it has claimed stay claimed by it and the
\* tickets it has issued stay issued by it, as long as they exist and are
\* not issued anew. A RefreshSession or IssueTicket by it puts the deadline
\* into the future again, and a sweep removes no session whose deadline has
\* not passed.
C40_ExpiredUnsweptStillValid ==
    [][/\ \A s \in Live :
            isExpired(sessions[s]) =>
              /\ last'.sess = s =>
                   /\ last'.op \in {"RefreshSession", "GetSession", "CloseSession"}
                          => last'.ok /\ last'.err = "none"
                   /\ last'.op = "IssueTicket" => last'.err # "NotFound"
                   /\ (last'.op = "HasTicket"
                          /\ HasRes(resources, last'.res)
                          /\ holdsTicket(resources, last'.res, last'.name, s))
                          => last'.ok /\ last'.err = "none"
                   /\ (last'.op = "Lock"
                          /\ HasTick(resources, last'.res, last'.res)
                          /\ resources[last'.res].IsLock
                          /\ resources[last'.res].Tickets[last'.res].Issuer = s)
                          => last'.ok /\ last'.err = "none"
                   /\ last'.op \in {"RefreshSession", "IssueTicket"}
                          => /\ s \in DOMAIN sessions'
                             /\ sessions'[s].expires = sessions'[s].Ttl
                             /\ ~isExpired(sessions'[s])
              /\ (last'.sess # s /\ last'.op # "expireSessions" /\ ~WriterStarts)
                   => /\ s \in DOMAIN sessions'
                      /\ \A r \in DOMAIN resources : \A n \in DOMAIN resources[r].Tickets :
                            HasTick(resources', r, n) =>
                              /\ resources[r].Tickets[n].Claimant = s
                                    => resources'[r].Tickets[n].Claimant = s
                              /\ ( /\ resources[r].Tickets[n].Issuer = s
                                   /\ ~(last'.op = "IssueTicket" /\ last'.res = r
                                          /\ last'.name = n) )
                                    => resources'[r].Tickets[n].Issuer = s
       /\ last'.op = "expireSessions"
            => \A s \in Live : ~isExpired(sessions[s]) => s \in DOMAIN sessions']_vars

\* A session whose deadline has passed claims a ticket, and is still there
\* with its deadline in the past
C40_Witness ==
    /\ last.op = "ClaimTicket"
    /\ last.ok
    /\ last.sess \in Live
    /\ isExpired(sessions[last.sess])
    /\ HasRes(resources, last.res)
    /\ holdsTicket(resources, last.res, last.ticket.Name, last.sess)
====
